---- MODULE Spec2Model ----
(***************************************************************************)
(* Model of the analytics route of be_Builder (src/unnamed/part_000):      *)
(* organizeData (time buckets), createSankeyData (flow graph) and          *)
(* createRadarChartData (health metrics), with the date-fns / Date         *)
(* operations they call evaluated in the process's local time zone.        *)
(***************************************************************************)
EXTENDS Integers, Sequences, FiniteSets, TLC

VARIABLES pc, tz, period, currentDate, periods, lastEnd, node_data,
          startTimestamp, endTimestamp, sera_settings, endpointAreaChart,
          endpointSankeyChart, endpointRadialChart, reply

vars == <<pc, tz, period, currentDate, periods, lastEnd, node_data,
          startTimestamp, endTimestamp, sera_settings, endpointAreaChart,
          endpointSankeyChart, endpointRadialChart, reply>>

(***************************************************************************)
(* Bounds of the model.                                                    *)
(***************************************************************************)
\* longest record collection handed to organizeData
MaxAreaRecords == 2
\* longest record collection handed to createSankeyData
MaxSankeyRecords == 3
\* longest record collection handed to createRadarChartData
MaxRadarRecords == 2

(***************************************************************************)
(* Calendar arithmetic of the JavaScript Date object (proleptic Gregorian, *)
(* days counted from 1970-01-01).  Month numbers are 1..12 here; monthIdx  *)
(* is the 0-based month of Date, which may lie outside 0..11.              *)
(***************************************************************************)
SecPerHour == 60 * 60
SecPerDay == 24 * SecPerHour

DaysFromCivil(y, m, d) ==
  LET yy  == IF m <= 2 THEN y - 1 ELSE y
      era == yy \div 400
      yoe == yy - era * 400
      mp  == IF m > 2 THEN m - 3 ELSE m + 9
      doy == (153 * mp + 2) \div 5 + d - 1
      doe == yoe * 365 + yoe \div 4 - yoe \div 100 + doy
  IN  era * 146097 + doe - 719468

CivilFromDays(z) ==
  LET zz  == z + 719468
      era == zz \div 146097
      doe == zz - era * 146097
      yoe == (doe - doe \div 1460 + doe \div 36524 - doe \div 146096) \div 365
      doy == doe - (365 * yoe + yoe \div 4 - yoe \div 100)
      mp  == (5 * doy + 2) \div 153
      d   == doy - (153 * mp + 2) \div 5 + 1
      m   == IF mp < 10 THEN mp + 3 ELSE mp - 9
      y   == yoe + era * 400 + (IF m <= 2 THEN 1 ELSE 0)
  IN  [year |-> y, month |-> m, date |-> d]

\* MakeDay of ECMAScript: month overflow carries into the year, day 0 is the
\* last day of the month before.
MakeDay(y, monthIdx, d) ==
  DaysFromCivil(y + monthIdx \div 12, (monthIdx % 12) + 1, 1) + d - 1

(***************************************************************************)
(* The local time zone.  "fixed" is a zone whose UTC offset never changes  *)
(* (UTC itself); "dst" is a zone five hours west of Greenwich that keeps   *)
(* daylight-saving time from DstStart to DstEnd.                           *)
(***************************************************************************)
TimeZones == {"fixed", "dst"}

DstStart == DaysFromCivil(2024, 3, 10) * SecPerDay + 7 * SecPerHour
DstEnd   == DaysFromCivil(2024, 11, 3) * SecPerDay + 6 * SecPerHour

StdOffset(z) == IF z = "dst" THEN 0 - 5 * SecPerHour ELSE 0
DstOffset(z) == IF z = "dst" THEN 0 - 4 * SecPerHour ELSE 0

\* seconds to add to a UTC instant to get the local wall clock
Offset(z, s) ==
  IF z = "dst" /\ DstStart <= s /\ s < DstEnd THEN DstOffset(z) ELSE StdOffset(z)

\* LocalTime(t) of ECMAScript
LocalTime(z, s) == s + Offset(z, s)

\* UTC(t) of ECMAScript: a wall-clock time that occurs twice or never is read
\* with the offset in force before the transition.
UTC(z, l) ==
  LET uS == l - StdOffset(z)
      uD == l - DstOffset(z)
      vS == Offset(z, uS) = StdOffset(z)
      vD == Offset(z, uD) = DstOffset(z)
  IN  IF vS /\ ~vD THEN uS
      ELSE IF vD /\ ~vS THEN uD
      ELSE IF vS /\ vD THEN uD
      ELSE uS

(***************************************************************************)
(* Instants are Date values: whole seconds since the epoch and the         *)
(* milliseconds within the second.                                         *)
(***************************************************************************)
Instant(s, ms) == [s |-> s, ms |-> ms]

\* new Date(item.ts * 1000)
DateOfTs(ts) == Instant(ts, 0)

isAfter(a, b)  == a.s > b.s \/ (a.s = b.s /\ a.ms > b.ms)
isBefore(a, b) == a.s < b.s \/ (a.s = b.s /\ a.ms < b.ms)

\* the clock read again lag milliseconds after date
ClockAfter(date, lag) ==
  Instant(date.s + (date.ms + lag) \div 1000, (date.ms + lag) % 1000)

\* local calendar fields of an instant (getFullYear, getMonth, getDate, ...)
Fields(z, date) ==
  LET l   == LocalTime(z, date.s)
      day == l \div SecPerDay
      c   == CivilFromDays(day)
  IN  [year |-> c.year, monthIdx |-> c.month - 1, date |-> c.date,
       day |-> day, weekday |-> (day + 4) % 7, secOfDay |-> l % SecPerDay,
       hours |-> (l % SecPerDay) \div SecPerHour,
       minutes |-> ((l % SecPerDay) % SecPerHour) \div 60,
       seconds |-> l % 60, ms |-> date.ms]

\* the instant whose local wall clock is day `day`, `secOfDay` seconds in
FromLocal(z, day, secOfDay, ms) == Instant(UTC(z, day * SecPerDay + secOfDay), ms)

(***************************************************************************)
(* date-fns                                                                *)
(***************************************************************************)
\* date.setMinutes(0, 0, 0)
startOfHour(z, date) ==
  LET f == Fields(z, date)
  IN  FromLocal(z, f.day, f.hours * SecPerHour, 0)

\* date.setHours(0, 0, 0, 0)
startOfDay(z, date) ==
  LET f == Fields(z, date)
  IN  FromLocal(z, f.day, 0, 0)

\* date.setDate(date.getDate() + amount)
addDays(z, date, amount) ==
  LET f == Fields(z, date)
  IN  FromLocal(z, f.day + amount, f.secOfDay, f.ms)

\* weekStartsOn: 1; setDate(getDate() - diff) then setHours(0, 0, 0, 0)
startOfWeek(z, date) ==
  LET f    == Fields(z, date)
      diff == (IF f.weekday < 1 THEN 7 ELSE 0) + f.weekday - 1
  IN  startOfDay(z, addDays(z, date, 0 - diff))

\* setDate(1) then setHours(0, 0, 0, 0)
startOfMonth(z, date) ==
  LET f == Fields(z, date)
  IN  startOfDay(z, FromLocal(z, MakeDay(f.year, f.monthIdx, 1), f.secOfDay, f.ms))

\* addMilliseconds(date, -amount * 3600000)
subHours(z, date, amount) == Instant(date.s - amount * SecPerHour, date.ms)

subDays(z, date, amount) == addDays(z, date, 0 - amount)

subWeeks(z, date, amount) == addDays(z, date, 0 - 7 * amount)

\* addMonths(date, -amount): the day of the month is kept unless the target
\* month is shorter, and then its last day is taken.
subMonths(z, date, amount) ==
  LET f      == Fields(z, date)
      endDay == MakeDay(f.year, f.monthIdx - amount + 1, 0)
      endOfDesiredMonth == FromLocal(z, endDay, f.secOfDay, f.ms)
      e      == Fields(z, endOfDesiredMonth)
  IN  IF f.date >= e.date
      THEN endOfDesiredMonth
      ELSE FromLocal(z, MakeDay(e.year, e.monthIdx, f.date), f.secOfDay, f.ms)

MonthAbbr == <<"Jan", "Feb", "Mar", "Apr", "May", "Jun",
               "Jul", "Aug", "Sep", "Oct", "Nov", "Dec">>

\* format(date, pattern) for the three patterns of organizeData: the text is
\* represented by the pattern and the fields it prints, in order.
format(z, date, pattern) ==
  LET f == Fields(z, date)
  IN  CASE pattern = "MMM"   -> <<"MMM", MonthAbbr[f.monthIdx + 1]>>
        [] pattern = "HH:00" -> <<"HH:00", f.hours>>
        [] OTHER -> <<"yyyy-MM-dd'T'HH:mm:ss.SSSX", f.year, f.monthIdx + 1, f.date,
                      f.hours, f.minutes, f.seconds, f.ms, Offset(z, date.s)>>

(***************************************************************************)
(* organizeData and its helpers                                            *)
(***************************************************************************)
getStartOfPeriod(z, date, p) ==
  CASE p = "hourly"  -> startOfHour(z, date)
    [] p = "daily"   -> startOfDay(z, date)
    [] p = "weekly"  -> startOfWeek(z, date)
    [] p = "monthly" -> startOfMonth(z, date)
    [] OTHER         -> startOfMonth(z, date)

\* the switch of getPreviousPeriods that steps `current` back one period
PreviousDate(z, current, p) ==
  CASE p = "hourly"  -> subHours(z, current, 1)
    [] p = "daily"   -> subDays(z, current, 1)
    [] p = "weekly"  -> subWeeks(z, current, 1)
    [] p = "monthly" -> subMonths(z, current, 1)
    [] OTHER         -> subMonths(z, current, 1)

Reverse(s) == [i \in 1..Len(s) |-> s[Len(s) + 1 - i]]

RECURSIVE PushPeriods(_, _, _, _)
\* the for loop of getPreviousPeriods: the starts in the order pushed
PushPeriods(z, current, p, count) ==
  IF count = 0 THEN <<>>
  ELSE <<getStartOfPeriod(z, current, p)>>
         \o PushPeriods(z, PreviousDate(z, current, p), p, count - 1)

getPreviousPeriods(z, date, p, count) == Reverse(PushPeriods(z, date, p, count))

\* number of previous periods organizeData asks for
PeriodCount == 5

\* the pattern organizeData hands to format
LabelPattern(p) ==
  IF p = "monthly" THEN "MMM"
  ELSE IF p = "hourly" THEN "HH:00"
  ELSE "yyyy-MM-dd'T'HH:mm:ss.SSSX"

RECURSIVE CountIn_inclusive(_, _, _)
\* CountIn with both comparisons inclusive (!isBefore / !isAfter)
CountIn_inclusive(data, from, to) ==
  IF data = <<>> THEN [req |-> 0, error |-> 0]
  ELSE LET item == Head(data)
           rest == CountIn_inclusive(Tail(data), from, to)
           hit  == ~isBefore(DateOfTs(item.ts), from) /\ ~isAfter(DateOfTs(item.ts), to)
       IN  [req   |-> rest.req + (IF hit THEN 1 ELSE 0),
            error |-> rest.error + (IF hit /\ item.response.status >= 400 THEN 1 ELSE 0)]

RECURSIVE CountIn_endInclusive(_, _, _)
\* CountIn with the end of the period included (!isAfter(date, endOfPeriod))
CountIn_endInclusive(data, from, to) ==
  IF data = <<>> THEN [req |-> 0, error |-> 0]
  ELSE LET item == Head(data)
           rest == CountIn_endInclusive(Tail(data), from, to)
           hit  == isAfter(DateOfTs(item.ts), from) /\ ~isAfter(DateOfTs(item.ts), to)
       IN  [req   |-> rest.req + (IF hit THEN 1 ELSE 0),
            error |-> rest.error + (IF hit /\ item.response.status >= 400 THEN 1 ELSE 0)]

RECURSIVE CountIn(_, _, _)
\* the inner node_data.forEach: requests and errors strictly inside (from, to)
CountIn(data, from, to) ==
  IF data = <<>> THEN [req |-> 0, error |-> 0]
  ELSE LET item == Head(data)
           rest == CountIn(Tail(data), from, to)
           hit  == isAfter(DateOfTs(item.ts), from) /\ isBefore(DateOfTs(item.ts), to)
       IN  [req   |-> rest.req + (IF hit THEN 1 ELSE 0),
            error |-> rest.error + (IF hit /\ item.response.status >= 400 THEN 1 ELSE 0)]

\* dataMap[name] = entry on an object listed by Object.values: a new key is
\* appended, an existing key keeps its place and takes the new value
PutEntry(dataMap, entry) ==
  IF \E i \in 1..Len(dataMap) : dataMap[i].name = entry.name
  THEN [i \in 1..Len(dataMap) |->
          IF dataMap[i].name = entry.name THEN entry ELSE dataMap[i]]
  ELSE Append(dataMap, entry)

\* end of the period at index (1-based): the next start, or the clock read again
EndOfPeriod(starts, index, endDate) ==
  IF index < Len(starts) THEN starts[index + 1] ELSE endDate

RECURSIVE FillDataMap(_, _, _, _, _, _, _)
\* the periods.forEach of organizeData, from index on
FillDataMap(z, data, p, starts, endDate, index, dataMap) ==
  IF index > Len(starts) THEN dataMap
  ELSE LET name == format(z, starts[index], LabelPattern(p))
           c    == CountIn(data, starts[index], EndOfPeriod(starts, index, endDate))
       IN  FillDataMap(z, data, p, starts, endDate, index + 1,
                       PutEntry(dataMap, [name |-> name, req |-> c.req, error |-> c.error]))

\* organizeData(node_data, period) from line 54 on, given the period starts of
\* line 53 and the clock read at line 58
organizeData(z, data, p, starts, endDate) ==
  FillDataMap(z, data, p, starts, endDate, 1, <<>>)

(***************************************************************************)
(* createSankeyData.  The builder state is the four locals nodes,          *)
(* nodeIndex, links and linkIndex; indices are 0-based as in the source.   *)
(* The link key `${source}-${target}` of two node indices is the pair.     *)
(***************************************************************************)
apiType == "API - JSON"

EmptySankey == [nodes |-> <<>>, nodeIndex |-> <<>>, links |-> <<>>, linkIndex |-> <<>>]

\* nodeIndex and linkIndex are lookup tables: sequences of [key, index]
Lookup(table, key) ==
  IF \E i \in 1..Len(table) : table[i].key = key
  THEN (CHOOSE e \in {table[i] : i \in 1..Len(table)} : e.key = key).index
  ELSE "undefined"

\* table[key] !== undefined
Defined(table, key) == \E i \in 1..Len(table) : table[i].key = key

\* getNodeIndex without the test for a known name: every call adds a node
getNodeIndex_noDedupe(st, name) ==
  [st EXCEPT !.nodeIndex = Append(@, [key |-> name, index |-> Len(st.nodes)]),
             !.nodes = Append(@, [name |-> name, index |-> Len(st.nodes)])]

\* the builder state after getNodeIndex(name)
getNodeIndex(st, name) ==
  IF ~Defined(st.nodeIndex, name)
  THEN [st EXCEPT !.nodeIndex = Append(@, [key |-> name, index |-> Len(st.nodes)]),
                  !.nodes = Append(@, [name |-> name, index |-> Len(st.nodes)])]
  ELSE st

\* getLinkIndex without the else branch: a repeated link keeps value 1
getLinkIndex_noIncrement(st, source, target) ==
  LET key == <<source, target>>
  IN  IF ~Defined(st.linkIndex, key)
      THEN [st EXCEPT !.linkIndex = Append(@, [key |-> key, index |-> Len(st.links)]),
                      !.links = Append(@, [source |-> source, target |-> target,
                                           value |-> 1])]
      ELSE st

\* getLinkIndex whose else branch increments links[links.length - 1]
getLinkIndex_lastLink(st, source, target) ==
  LET key == <<source, target>>
  IN  IF ~Defined(st.linkIndex, key)
      THEN [st EXCEPT !.linkIndex = Append(@, [key |-> key, index |-> Len(st.links)]),
                      !.links = Append(@, [source |-> source, target |-> target,
                                           value |-> 1])]
      ELSE [st EXCEPT !.links[Len(st.links)].value = @ + 1]

\* getLinkIndex whose key is the target alone
getLinkIndex_keyByTarget(st, source, target) ==
  LET key == <<target>>
  IN  IF ~Defined(st.linkIndex, key)
      THEN [st EXCEPT !.linkIndex = Append(@, [key |-> key, index |-> Len(st.links)]),
                      !.links = Append(@, [source |-> source, target |-> target,
                                           value |-> 1])]
      ELSE [st EXCEPT !.links[Lookup(st.linkIndex, key) + 1].value = @ + 1]

\* the builder state after getLinkIndex(source, target)
getLinkIndex(st, source, target) ==
  LET key == <<source, target>>
  IN  IF ~Defined(st.linkIndex, key)
      THEN [st EXCEPT !.linkIndex = Append(@, [key |-> key, index |-> Len(st.links)]),
                      !.links = Append(@, [source |-> source, target |-> target,
                                           value |-> 1])]
      ELSE [st EXCEPT !.links[Lookup(st.linkIndex, key) + 1].value = @ + 1]

\* the body of node_data.forEach for one item
SankeyItem(st, item) ==
  LET ip       == item.session_analytics.ip_address
      hostname == item.hostname
      path     == item.path
      method   == item.method
      s1 == getNodeIndex(st, ip)
      s2 == getNodeIndex(s1, apiType)
      s3 == getNodeIndex(s2, hostname)
      s4 == getNodeIndex(s3, path)
      s5 == getNodeIndex(s4, method)
      ipIndex       == Lookup(s5.nodeIndex, ip)
      apiTypeIndex  == Lookup(s5.nodeIndex, apiType)
      hostnameIndex == Lookup(s5.nodeIndex, hostname)
      pathIndex     == Lookup(s5.nodeIndex, path)
      methodIndex   == Lookup(s5.nodeIndex, method)
      l1 == getLinkIndex(s5, ipIndex, apiTypeIndex)
      l2 == getLinkIndex(l1, apiTypeIndex, hostnameIndex)
      l3 == getLinkIndex(l2, hostnameIndex, pathIndex)
  IN  getLinkIndex(l3, pathIndex, methodIndex)

RECURSIVE SankeyFold(_, _)
SankeyFold(st, data) ==
  IF data = <<>> THEN st ELSE SankeyFold(SankeyItem(st, Head(data)), Tail(data))

createSankeyData(data) ==
  LET st == SankeyFold(EmptySankey, data)
  IN  [nodes |-> st.nodes, links |-> st.links]

(***************************************************************************)
(* JavaScript numbers, as far as createRadarChartData uses them: NaN, the  *)
(* two infinities, and finite values kept as reduced fractions n/d, d > 0. *)
(***************************************************************************)
NaN == [k |-> "NaN"]
PosInfinity == [k |-> "Infinity"]
NegInfinity == [k |-> "-Infinity"]

Abs(i) == IF i < 0 THEN 0 - i ELSE i

RECURSIVE GCD(_, _)
GCD(a, b) == IF b = 0 THEN a ELSE GCD(b, a % b)

Fin(n, d) ==
  LET sn == IF d < 0 THEN 0 - n ELSE n
      sd == Abs(d)
      g  == GCD(Abs(sn), sd)
  IN  [k |-> "fin", n |-> sn \div g, d |-> sd \div g]

Num(i) == Fin(i, 1)

IsFinite(x) == x.k = "fin"

\* -1, 0 or 1; NaN has no sign and is never asked for one
Sign(x) ==
  CASE x.k = "Infinity"  -> 1
    [] x.k = "-Infinity" -> 0 - 1
    [] OTHER -> IF x.n > 0 THEN 1 ELSE IF x.n < 0 THEN 0 - 1 ELSE 0

Signed(sgn) == IF sgn > 0 THEN PosInfinity ELSE NegInfinity

\* a / b; a zero divisor is +0
JsDiv(a, b) ==
  CASE a.k = "NaN" \/ b.k = "NaN"        -> NaN
    [] ~IsFinite(a) /\ ~IsFinite(b)      -> NaN
    [] ~IsFinite(a)                      -> Signed(Sign(a) * (IF Sign(b) < 0 THEN 0 - 1 ELSE 1))
    [] ~IsFinite(b)                      -> Num(0)
    [] b.n = 0 /\ a.n = 0                -> NaN
    [] b.n = 0                           -> Signed(Sign(a))
    [] OTHER                             -> Fin(a.n * b.d, a.d * b.n)

\* a * b
JsMul(a, b) ==
  CASE a.k = "NaN" \/ b.k = "NaN"        -> NaN
    [] IsFinite(a) /\ IsFinite(b)        -> Fin(a.n * b.n, a.d * b.d)
    [] Sign(a) = 0 \/ Sign(b) = 0        -> NaN
    [] OTHER                             -> Signed(Sign(a) * Sign(b))

\* a > b; false when either side is NaN
JsGt(a, b) ==
  CASE a.k = "NaN" \/ b.k = "NaN"        -> FALSE
    [] IsFinite(a) /\ IsFinite(b)        -> a.n * b.d > b.n * a.d
    [] a.k = "Infinity"                  -> b.k # "Infinity"
    [] a.k = "-Infinity"                 -> FALSE
    [] OTHER                             -> b.k = "-Infinity"

RECURSIVE Pow10(_)
Pow10(k) == IF k = 0 THEN 1 ELSE 10 * Pow10(k - 1)

\* parseFloat(x.toFixed(digits)): a finite x rounded to that many decimals
\* (halves away from zero); "NaN" and "Infinity" are printed and read back.
toFixed(x, digits) ==
  IF ~IsFinite(x) THEN x
  ELSE LET scale == Pow10(digits)
           num   == Abs(x.n) * scale
           q     == (2 * num + x.d) \div (2 * x.d)
       IN  Fin((IF x.n < 0 THEN 0 - q ELSE q), scale)

(***************************************************************************)
(* createRadarChartData                                                    *)
(***************************************************************************)
\* node_data.filter(item => item.response.status === 200).length
CountOk(data) == Cardinality({i \in DOMAIN data : data[i].response.status = 200})

\* node_data.filter(item => item.response.status >= 400).length
CountErrors(data) == Cardinality({i \in DOMAIN data : data[i].response.status >= 400})

RECURSIVE SumResponseTime(_)
\* node_data.reduce((acc, item) => acc + item.response_time, 0)
SumResponseTime(data) ==
  IF data = <<>> THEN 0 ELSE Head(data).response_time + SumResponseTime(Tail(data))

\* value of the Latency entry
LatencyValue(Latency, latency) ==
  LET ratio == JsMul(JsDiv(Num(Latency), latency), Num(100))
  IN  IF JsGt(ratio, Num(100)) THEN Num(100) ELSE toFixed(ratio, 2)

\* the array createRadarChartData returns, given the destructured thresholds
RadarMetrics(data, startTs, endTs, hm) ==
  LET totalRequests      == Len(data)
      successfulRequests == CountOk(data)
      uptime  == JsMul(JsDiv(Num(totalRequests - CountErrors(data)),
                             Num(totalRequests)), Num(100))
      latency == JsDiv(Num(SumResponseTime(data)), Num(totalRequests))
      timePeriodInSeconds == endTs - startTs
      rps     == JsMul(JsDiv(Num(totalRequests), Num(timePeriodInSeconds)), Num(100))
      successRate == JsMul(JsDiv(Num(successfulRequests), Num(totalRequests)), Num(100))
      uptimeValue == JsMul(JsDiv(uptime, Num(hm.Uptime)), Num(100))
  IN  << [subject |-> "RPS", description |-> <<"Percent of overall RPS">>,
          actual |-> <<toFixed(rps, 5), " rps">>,
          value |-> JsMul(JsDiv(toFixed(rps, 5), Num(hm.RPS)), Num(100)),
          cap |-> 100],
         [subject |-> "Uptime",
          description |-> <<"Percent of time since last restart that this has been available">>,
          actual |-> <<uptimeValue, "%">>,
          value |-> uptimeValue,
          cap |-> 100],
         [subject |-> "Success",
          description |-> <<"Percent of responses that are 200 (Status Ok)">>,
          actual |-> <<successRate, "%">>,
          value |-> successRate,
          cap |-> 100],
         [subject |-> "Inventory",
          description |-> <<"Percent of OAS documentation that have descriptions">>,
          actual |-> <<"100%">>,
          value |-> Num(100),
          cap |-> hm.Inventory],
         [subject |-> "Builders",
          description |-> <<"Percent of endpoints that have builders setup">>,
          actual |-> <<"100%">>,
          value |-> Num(100),
          cap |-> hm.Builders],
         [subject |-> "Latency",
          description |-> <<"Average Latency of requests that are above ", hm.Latency, "ms">>,
          actual |-> <<toFixed(latency, 2), "ms">>,
          value |-> LatencyValue(hm.Latency, latency),
          cap |-> 100] >>

\* what seraSettings.findOne resolves to when no document matches
NullSettings == [null |-> TRUE]

\* createRadarChartData: the metrics, or the TypeError of destructuring the
\* thresholds of a settings document that was not found
createRadarChartData(data, startTs, endTs, settings) ==
  IF settings = NullSettings
  THEN [threw |-> TRUE, message |-> "TypeError"]
  ELSE [threw |-> FALSE,
        value |-> RadarMetrics(data, startTs, endTs,
                               settings.systemSettings.seraSettings.healthMetrics)]

(***************************************************************************)
(* Inputs                                                                  *)
(***************************************************************************)
\* a TX_LOGS document, with the fields the three functions read
LogRecord(ts, status, responseTime, ip, hostname, path, method) ==
  [ts |-> ts, response |-> [status |-> status], response_time |-> responseTime,
   session_analytics |-> [ip_address |-> ip], hostname |-> hostname,
   path |-> path, method |-> method]

\* the sera_settings document with the given Latency, RPS and Uptime limits
Settings(Latency, RPS, Uptime) ==
  [systemSettings |-> [seraSettings |-> [healthMetrics |->
     [Builders |-> 100, Inventory |-> 100, Latency |-> Latency, RPS |-> RPS,
      Success |-> 100, Uptime |-> Uptime]]]]

BoundedSeq(S, n) == UNION {[1..k -> S] : k \in 0..n}

At(y, m, d, h, mi, sec) ==
  DaysFromCivil(y, m, d) * SecPerDay + h * SecPerHour + mi * 60 + sec

\* the instants at which organizeData reads the clock: just after a Monday
\* midnight that starts a month (UTC), on the hour, on the last day of a
\* 31-day month with a millisecond part, and in the hours after the "dst"
\* zone set its clocks back and forward
Nows ==
  { Instant(At(2024, 7, 1, 0, 30, 0), 0),
    Instant(At(2024, 7, 1, 1, 0, 0), 0),
    Instant(At(2024, 3, 31, 12, 15, 0), 500),
    Instant(At(2024, 11, 3, 6, 30, 0), 0),
    Instant(At(2024, 3, 10, 8, 30, 0), 0) }

KnownPeriods == {"hourly", "daily", "weekly", "monthly"}
\* "custom" is the period value of the route that organizeData does not know
Periods == KnownPeriods \cup {"custom"}

\* record timestamps, in seconds before the clock's second
TsOffsets == {0, 30 * 60, SecPerHour}

AreaRecords(now) ==
  { LogRecord(now.s - off, status, 50, "10.0.0.1", "api.example", "/p", "GET") :
      off \in TsOffsets, status \in {200, 500} }

\* the three records of the hourly scenario, in any order: two at
\* now - 3600 s, one of them with status 500, and one at now
ScenarioCollections(now) ==
  LET a == LogRecord(now.s - SecPerHour, 500, 50, "10.0.0.1", "api.example", "/p", "GET")
      b == LogRecord(now.s - SecPerHour, 200, 50, "10.0.0.1", "api.example", "/p", "GET")
      c == LogRecord(now.s, 200, 50, "10.0.0.1", "api.example", "/p", "GET")
  IN  {<<a, b, c>>, <<a, c, b>>, <<b, a, c>>, <<b, c, a>>, <<c, a, b>>, <<c, b, a>>}

\* a hostname or a path may be the very string of the method ("GET")
SankeyRecords ==
  { LogRecord(0, 200, 50, ip, hostname, path, "GET") :
      ip \in {"10.0.0.1", "10.0.0.2"}, hostname \in {"api.example", "GET"},
      path \in {"/p", "GET"} }

RadarRecords(ts) ==
  { LogRecord(ts, status, responseTime, "10.0.0.1", "api.example", "/p", "GET") :
      status \in {200, 404}, responseTime \in {0, 50, 200} }

\* endTimestamp - startTimestamp of the requests modelled
RadarWindows == {0 - 10, 0, 10}

RadarSettings ==
  { Settings(Latency, 10, Uptime) : Latency \in {20, 100}, Uptime \in {50, 100} }
    \cup {NullSettings}

\* milliseconds the clock advances between the reads at lines 52 and 58
Lags == {0, 1}

DefaultInstant == Instant(At(2024, 7, 1, 0, 30, 0), 0)

(***************************************************************************)
(* The analytics route from the point where node_data and sera_settings    *)
(* have been fetched: the three charts are computed in turn and sent; an   *)
(* exception thrown on the way is answered with status 500.                *)
(***************************************************************************)
InitOutputs ==
  /\ periods = <<>>
  /\ lastEnd = "unread"
  /\ endpointAreaChart = "pending"
  /\ endpointSankeyChart = "pending"
  /\ endpointRadialChart = "pending"
  /\ reply = "pending"

\* organizeData on any clock, zone, period and record collection
InitArea ==
  /\ pc = "organizeData"
  /\ tz \in TimeZones
  /\ period \in Periods
  /\ currentDate \in Nows
  /\ node_data \in BoundedSeq(AreaRecords(currentDate), MaxAreaRecords)
                    \cup ScenarioCollections(currentDate)
  /\ startTimestamp = currentDate.s - 5 * SecPerHour
  /\ endTimestamp = currentDate.s
  /\ sera_settings = Settings(100, 10, 100)
  /\ InitOutputs

\* createSankeyData on any record collection
InitSankey ==
  /\ pc = "createSankeyData"
  /\ tz = "fixed"
  /\ period = "hourly"
  /\ currentDate = DefaultInstant
  /\ node_data \in BoundedSeq(SankeyRecords, MaxSankeyRecords)
  /\ startTimestamp = 0
  /\ endTimestamp = 10
  /\ sera_settings = Settings(100, 10, 100)
  /\ InitOutputs

\* a request with period=custom: any window, thresholds and record collection
Init ==
  /\ pc = "organizeData"
  /\ tz = "fixed"
  /\ period = "custom"
  /\ currentDate = DefaultInstant
  /\ startTimestamp = currentDate.s - SecPerHour
  /\ endTimestamp \in {startTimestamp + w : w \in RadarWindows}
  /\ node_data \in BoundedSeq(RadarRecords(startTimestamp), MaxRadarRecords)
  /\ sera_settings \in RadarSettings
  /\ InitOutputs

\* line 231; the clock is read at line 52 and again at line 58
OrganizeData ==
  /\ pc = "organizeData"
  /\ periods' = getPreviousPeriods(tz, currentDate, period, PeriodCount)
  /\ \E lag \in Lags :
       /\ lastEnd' = ClockAfter(currentDate, lag)
       /\ endpointAreaChart' = organizeData(tz, node_data, period, periods', lastEnd')
  /\ pc' = "createSankeyData"
  /\ UNCHANGED <<tz, period, currentDate, node_data, startTimestamp, endTimestamp,
                 sera_settings, endpointSankeyChart, endpointRadialChart, reply>>

\* line 232
CreateSankeyData ==
  /\ pc = "createSankeyData"
  /\ endpointSankeyChart' = createSankeyData(node_data)
  /\ pc' = "createRadarChartData"
  /\ UNCHANGED <<tz, period, currentDate, periods, lastEnd, node_data, startTimestamp,
                 endTimestamp, sera_settings, endpointAreaChart, endpointRadialChart,
                 reply>>

\* line 233
CreateRadarChartData ==
  /\ pc = "createRadarChartData"
  /\ endpointRadialChart' =
       createRadarChartData(node_data, startTimestamp, endTimestamp, sera_settings)
  /\ pc' = "reply"
  /\ UNCHANGED <<tz, period, currentDate, periods, lastEnd, node_data, startTimestamp,
                 endTimestamp, sera_settings, endpointAreaChart, endpointSankeyChart,
                 reply>>

\* lines 235-242: reply.send of the three charts, or the catch clause
RouteReply ==
  /\ pc = "reply"
  /\ reply' = IF endpointRadialChart.threw
              THEN [status |-> 500, message |-> endpointRadialChart.message]
              ELSE [status |-> 200,
                    endpointAreaChart |-> endpointAreaChart,
                    endpointSankeyChart |-> endpointSankeyChart,
                    endpointRadialChart |-> endpointRadialChart.value]
  /\ pc' = "done"
  /\ UNCHANGED <<tz, period, currentDate, periods, lastEnd, node_data, startTimestamp,
                 endTimestamp, sera_settings, endpointAreaChart, endpointSankeyChart,
                 endpointRadialChart>>

Next == OrganizeData \/ CreateSankeyData \/ CreateRadarChartData \/ RouteReply

Spec == Init /\ [][Next]_vars

SpecArea == InitArea /\ [][OrganizeData]_vars

SpecSankey == InitSankey /\ [][CreateSankeyData]_vars

(***************************************************************************)
(* Properties of organizeData, stated for SpecArea                         *)
(***************************************************************************)
AreaCalled == pc # "organizeData"

\* the labels organizeData gives the five periods, oldest first
Labels == [i \in 1..PeriodCount |-> format(tz, periods[i], LabelPattern(period))]

\* the period at index is in the result: no later period has its label
Returned(labels, index) ==
  \A j \in (index + 1)..PeriodCount : labels[j] # labels[index]

LabelsDistinct == LET labels == Labels IN \A i \in 1..PeriodCount : Returned(labels, i)

\* the record's timestamp is strictly inside the period at index
InsidePeriod(item, index) ==
  /\ isAfter(DateOfTs(item.ts), periods[index])
  /\ isBefore(DateOfTs(item.ts), EndOfPeriod(periods, index, lastEnd))

RECURSIVE SumReq(_)
SumReq(chart) == IF chart = <<>> THEN 0 ELSE Head(chart).req + SumReq(Tail(chart))

Counts(bucket) == <<bucket.req, bucket.error>>

\* C1 (as claimed): for every period and every instant, organizeData returns
\* exactly 5 buckets, one per period start, each start strictly earlier than
\* the next.
C1_FiveBucketsOldestFirst ==
  AreaCalled =>
    /\ Len(endpointAreaChart) = 5
    /\ \A i \in 1..4 : isBefore(periods[i], periods[i + 1])
    /\ \A i \in 1..5 : endpointAreaChart[i].name = Labels[i]

\* every record lies strictly between the first bucket's start and now
AllInsideWindow ==
  \A k \in DOMAIN node_data :
    /\ isAfter(DateOfTs(node_data[k].ts), periods[1])
    /\ isBefore(DateOfTs(node_data[k].ts), currentDate)

\* C2 (as claimed): the requestCounts sum to at most the number of records,
\* and to exactly that number when every record lies strictly between the
\* first bucket's start and now.
C2_SumEqualsInsideWindow ==
  AreaCalled =>
    /\ SumReq(endpointAreaChart) <= Len(node_data)
    /\ AllInsideWindow => SumReq(endpointAreaChart) = Len(node_data)

\* every record lies strictly inside one of the returned buckets
AllInsideBuckets ==
  LET labels == Labels
  IN  \A k \in DOMAIN node_data :
        \E i \in 1..PeriodCount : Returned(labels, i) /\ InsidePeriod(node_data[k], i)

\* C2 (amended): the requestCounts sum to at most the number of records, and
\* to exactly that number when every record lies strictly between the start
\* and the end of a bucket whose label no later bucket reuses.
C2_SumEqualsInsideBuckets ==
  AreaCalled =>
    /\ SumReq(endpointAreaChart) <= Len(node_data)
    /\ AllInsideBuckets => SumReq(endpointAreaChart) = Len(node_data)

\* C2 witness: three records inside two different buckets, all counted
C2_Witness ==
  /\ AreaCalled
  /\ Len(node_data) = 3
  /\ AllInsideBuckets
  /\ \E i \in 1..Len(endpointAreaChart) : endpointAreaChart[i].req = 1
  /\ \E i \in 1..Len(endpointAreaChart) : endpointAreaChart[i].req = 2
  /\ SumReq(endpointAreaChart) = 3

\* the scenario of C3: hourly, now = t + 3600 to the millisecond, records at
\* t, t and t + 3600, the one with status 500 at t
Scenario3 ==
  /\ AreaCalled
  /\ period = "hourly"
  /\ currentDate.ms = 0
  /\ Len(node_data) = 3
  /\ \E a, b, c \in 1..3 :
       /\ {a, b, c} = 1..3
       /\ node_data[a].ts = currentDate.s - SecPerHour
       /\ node_data[b].ts = currentDate.s - SecPerHour
       /\ node_data[c].ts = currentDate.s
       /\ node_data[a].response.status = 500
       /\ node_data[b].response.status = 200
       /\ node_data[c].response.status = 200

\* the counts of the buckets that hold a request, oldest first
NonEmptyCounts(chart) ==
  LET keep == SelectSeq(chart, LAMBDA b : b.req > 0)
  IN  [i \in 1..Len(keep) |-> Counts(keep[i])]

HourAligned == startOfHour(tz, currentDate) = currentDate

C8_UnknownPeriodAsMonthly ==
  (AreaCalled /\ period \notin KnownPeriods) =>
    endpointAreaChart =
      organizeData(tz, node_data, "monthly",
                   getPreviousPeriods(tz, currentDate, "monthly", PeriodCount), lastEnd)

(***************************************************************************)
(* Properties of createSankeyData, stated for SpecSankey                   *)
(***************************************************************************)
SankeyCalled == pc # "createSankeyData"

\* the five labels of a record, in stage order
Chain(item) ==
  <<item.session_analytics.ip_address, apiType, item.hostname, item.path, item.method>>

\* the record's five labels are five different strings
DistinctChain(item) == Cardinality({Chain(item)[i] : i \in 1..5}) = 5

AllIdentical(data) == \A i, j \in DOMAIN data : data[i] = data[j]

NodeName(chart, index) == chart.nodes[index + 1].name

\* the record has the transition from label a to label b among its 4 stage pairs
Produces(item, a, b) == \E i \in 1..4 : Chain(item)[i] = a /\ Chain(item)[i + 1] = b

\* how many of the 4 stage pairs of the records are the transition a -> b
Occurrences(data, a, b) ==
  Cardinality({<<k, i>> \in (DOMAIN data) \X (1..4) :
                 Chain(data[k])[i] = a /\ Chain(data[k])[i + 1] = b})

\* C6 (as claimed): every edge's weight is the number of records that
\* produced its (source node, target node) transition.
C6_WeightIsRecordCount ==
  SankeyCalled =>
    \A e \in 1..Len(endpointSankeyChart.links) :
      LET link == endpointSankeyChart.links[e]
          a    == NodeName(endpointSankeyChart, link.source)
          b    == NodeName(endpointSankeyChart, link.target)
      IN  link.value = Cardinality({k \in DOMAIN node_data : Produces(node_data[k], a, b)})

\* C6 (amended): every edge's weight is the number of times its (source
\* node, target node) transition occurs among the 4 adjacent stage pairs of
\* the records; a record whose chain repeats the pair counts twice.
C6_WeightIsOccurrenceCount ==
  SankeyCalled =>
    \A e \in 1..Len(endpointSankeyChart.links) :
      LET link == endpointSankeyChart.links[e]
          a    == NodeName(endpointSankeyChart, link.source)
          b    == NodeName(endpointSankeyChart, link.target)
      IN  link.value = Occurrences(node_data, a, b)

\* C6 witness: an edge that two records share and an edge one record makes twice
C6_Witness ==
  /\ SankeyCalled
  /\ Len(node_data) = 2
  /\ node_data[1] # node_data[2]
  /\ \E e \in 1..Len(endpointSankeyChart.links) :
       LET link == endpointSankeyChart.links[e]
       IN  /\ link.value = 2
           /\ link.source # link.target
           /\ \A k \in 1..2 : Produces(node_data[k], NodeName(endpointSankeyChart, link.source),
                                       NodeName(endpointSankeyChart, link.target))
  /\ \E e \in 1..Len(endpointSankeyChart.links) :
       LET link == endpointSankeyChart.links[e]
       IN  link.value = 2 /\ link.source = link.target

\* C7 (as claimed): there are at most 4 nodes per record.
C7_AtMostFourNodesPerRecord ==
  SankeyCalled => Len(endpointSankeyChart.nodes) <= 4 * Len(node_data)

\* C7 (amended): there are at most 4 nodes per record plus one, the
\* protocol-type node all records share; no record gives no node.
C7_AtMostFourNodesPerRecordPlusOne ==
  SankeyCalled =>
    /\ Len(endpointSankeyChart.nodes) <= 4 * Len(node_data) + 1
    /\ Len(node_data) = 0 => Len(endpointSankeyChart.nodes) = 0

\* C7 witness: one record, five nodes
C7_Witness ==
  /\ SankeyCalled
  /\ Len(node_data) = 1
  /\ Len(endpointSankeyChart.nodes) = 5

\* the (source label, target label, weight) triples of a chart
Triples(chart) ==
  { <<NodeName(chart, chart.links[e].source), NodeName(chart, chart.links[e].target),
      chart.links[e].value>> : e \in 1..Len(chart.links) }

Orders(n) == {f \in [1..n -> 1..n] : \A i, j \in 1..n : f[i] = f[j] => i = j}

Permuted(data, f) == [i \in 1..Len(data) |-> data[f[i]]]

\* C10: createSankeyData on any permutation of the records gives the same
\* set of (source label, target label, weight) triples.
C10_WeightsOrderInvariant ==
  SankeyCalled =>
    \A f \in Orders(Len(node_data)) :
      Triples(createSankeyData(Permuted(node_data, f))) = Triples(endpointSankeyChart)

\* C10 witness: a reordering that changes the node numbering but no triple
C10_Witness ==
  /\ SankeyCalled
  /\ Len(node_data) = 3
  /\ \E f \in Orders(3) :
       LET other == createSankeyData(Permuted(node_data, f))
       IN  /\ other.nodes # endpointSankeyChart.nodes
           /\ other.links # endpointSankeyChart.links
           /\ Triples(other) = Triples(endpointSankeyChart)
  /\ \E e \in 1..Len(endpointSankeyChart.links) : endpointSankeyChart.links[e].value = 2

(***************************************************************************)
(* Properties of createRadarChartData and the reply, stated for Spec       *)
(***************************************************************************)
RadarReturned == pc \in {"reply", "done"} /\ ~endpointRadialChart.threw

\* the value of the metric with the given subject
MetricValue(metrics, subject) ==
  (CHOOSE m \in {metrics[i] : i \in 1..Len(metrics)} : m.subject = subject).value

\* x <= bound as numbers; NaN is at most nothing
AtMost(x, bound) == IsFinite(x) /\ x.n <= bound * x.d

\* C4 (as claimed): with no records, or with endTimestamp <= startTimestamp,
\* the caller gets an explicit DivisionByZero error; no metric list with a
\* NaN or infinite value is ever returned.
C4_DivisionByZeroSurfaced ==
  /\ RadarReturned =>
       \A i \in 1..Len(endpointRadialChart.value) :
         IsFinite(endpointRadialChart.value[i].value)
  /\ (pc = "done" /\ (Len(node_data) = 0 \/ endTimestamp <= startTimestamp)) =>
       reply.status = 500 /\ reply.message = "DivisionByZero"

\* Latency / averageLatency * 100 of the call
RawLatencyRatio ==
  JsMul(JsDiv(Num(sera_settings.systemSettings.seraSettings.healthMetrics.Latency),
              JsDiv(Num(SumResponseTime(node_data)), Num(Len(node_data)))),
        Num(100))

\* C9 (as claimed): for every record collection, window and threshold set,
\* the Latency value is at most 100, and is 100 whenever the raw ratio
\* exceeds 100.
C9_LatencyAtMost100 ==
  RadarReturned =>
    /\ AtMost(MetricValue(endpointRadialChart.value, "Latency"), 100)
    /\ JsGt(RawLatencyRatio, Num(100)) =>
         MetricValue(endpointRadialChart.value, "Latency") = Num(100)

====
